---- MODULE Spec2Model ----
(***************************************************************************)
(* A model of the two ffmpeg wrappers of this repository:                  *)
(*   mp42gif.py  convert_mp4_to_gif  (probe, palette stage, GIF stage,     *)
(*                                    palette cleanup)                     *)
(*   mp4.py      convert_video       (one ffmpeg-python run)               *)
(* Paths are sequences of one-character strings, byte strings are          *)
(* sequences of integers 0..255, the file system is a function from the    *)
(* paths the calls can name to what is stored there.                       *)
(***************************************************************************)
EXTENDS Integers, Sequences, FiniteSets, TLC

\* Longest diagnostic byte string an engine run is given to write (bound).
MaxStderrLen == 2

(***************************************************************************)
(* Strings                                                                 *)
(***************************************************************************)
\* Python's None, for an output_path that was not passed.
None == <<"<None>">>

GifExt == <<".", "g", "i", "f">>
PaletteSuffix == <<"_", "p", "a", "l", "e", "t", "t", "e", ".", "p", "n", "g">>
ConvertedSuffix == <<"_", "c", "o", "n", "v", "e", "r", "t", "e", "d", ".", "m", "p", "4">>

\* str.rfind(ch), 1-based; 0 when ch does not occur (Python's -1).
RECURSIVE rfind(_, _)
rfind(s, ch) ==
    IF s = <<>> THEN 0
    ELSE IF s[Len(s)] = ch THEN Len(s)
    ELSE rfind(SubSeq(s, 1, Len(s) - 1), ch)

\* os.path.splitext(p) on POSIX (genericpath._splitext with sep "/", extsep
\* "."): the extension starts at the last dot of the last component, unless
\* that component has only dots before it.
splitext(p) ==
    LET sepIndex == rfind(p, "/")
        dotIndex == rfind(p, ".")
    IN  IF /\ dotIndex > sepIndex
           /\ \E k \in (sepIndex + 1)..(dotIndex - 1) : p[k] # "."
        THEN <<SubSeq(p, 1, dotIndex - 1), SubSeq(p, dotIndex, Len(p))>>
        ELSE <<p, <<>>>>

\* mp42gif.py line 45: the output path derived from the input path.
gif_default_output(input) == splitext(input)[1] \o GifExt

\* mp42gif.py line 52: the palette path derived from the output path.
palette_path_of(output) == splitext(output)[1] \o PaletteSuffix

\* pathlib: Path(p).name, .parent, .stem for the relative POSIX paths used here.
path_name(p) == SubSeq(p, rfind(p, "/") + 1, Len(p))
path_parent(p) == SubSeq(p, 1, rfind(p, "/") - 1)
path_stem(p) ==
    LET name == path_name(p)
        i == rfind(name, ".")
    IN  IF 1 < i /\ i < Len(name) THEN SubSeq(name, 1, i - 1) ELSE name

\* mp4.py lines 24-25: str(input_file.parent / f"{input_file.stem}_converted.mp4").
video_default_output(input) ==
    IF path_parent(input) = <<>>
    THEN path_stem(input) \o ConvertedSuffix
    ELSE path_parent(input) \o <<"/">> \o path_stem(input) \o ConvertedSuffix

(***************************************************************************)
(* bytes.decode() / str.encode(), UTF-8, errors="strict"                   *)
(***************************************************************************)
IsCont(b) == 128 <= b /\ b <= 191

\* Length of the well-formed UTF-8 sequence that starts b, 0 when there is none.
utf8_head(b) ==
    IF b = <<>> THEN 0
    ELSE IF b[1] < 128 THEN 1
    ELSE IF /\ 194 <= b[1] /\ b[1] <= 223
            /\ Len(b) >= 2 /\ IsCont(b[2]) THEN 2
    ELSE IF /\ 224 <= b[1] /\ b[1] <= 239
            /\ Len(b) >= 3 /\ IsCont(b[2]) /\ IsCont(b[3])
            /\ (b[1] = 224 => b[2] >= 160)
            /\ (b[1] = 237 => b[2] <= 159) THEN 3
    ELSE IF /\ 240 <= b[1] /\ b[1] <= 244
            /\ Len(b) >= 4 /\ IsCont(b[2]) /\ IsCont(b[3]) /\ IsCont(b[4])
            /\ (b[1] = 240 => b[2] >= 144)
            /\ (b[1] = 244 => b[2] <= 143) THEN 4
    ELSE 0

utf8_codepoint(b, n) ==
    IF n = 1 THEN b[1]
    ELSE IF n = 2 THEN (b[1] - 192) * 64 + (b[2] - 128)
    ELSE IF n = 3 THEN (b[1] - 224) * 4096 + (b[2] - 128) * 64 + (b[3] - 128)
    ELSE (b[1] - 240) * 262144 + (b[2] - 128) * 4096 + (b[3] - 128) * 64 + (b[4] - 128)

\* bytes.decode(): [ok, text]; ok is FALSE where Python raises UnicodeDecodeError.
RECURSIVE utf8_decode(_)
utf8_decode(b) ==
    IF b = <<>> THEN [ok |-> TRUE, text |-> <<>>]
    ELSE LET n == utf8_head(b)
         IN  IF n = 0 THEN [ok |-> FALSE, text |-> <<>>]
             ELSE LET rest == utf8_decode(SubSeq(b, n + 1, Len(b)))
                  IN  [ok |-> rest.ok,
                       text |-> IF rest.ok THEN <<utf8_codepoint(b, n)>> \o rest.text
                                ELSE <<>>]

\* str.encode(): the bytes of a sequence of code points.
RECURSIVE utf8_encode(_)
utf8_encode(t) ==
    IF t = <<>> THEN <<>>
    ELSE LET c == t[1]
             head == IF c < 128 THEN <<c>>
                     ELSE IF c < 2048 THEN <<192 + (c \div 64), 128 + (c % 64)>>
                     ELSE IF c < 65536
                          THEN <<224 + (c \div 4096), 128 + ((c \div 64) % 64), 128 + (c % 64)>>
                     ELSE <<240 + (c \div 262144), 128 + ((c \div 4096) % 64),
                            128 + ((c \div 64) % 64), 128 + (c % 64)>>
         IN  head \o utf8_encode(Tail(t))

(***************************************************************************)
(* The calls that are made                                                 *)
(***************************************************************************)
P_a_mp4 == <<"a", ".", "m", "p", "4">>
P_a_gif == <<"a", ".", "g", "i", "f">>
P_a_png == <<"a", ".", "p", "n", "g">>
P_a_palette_png == <<"a">> \o PaletteSuffix
P_dv_a == <<"d", ".", "v", "/", "a">>

\* input_path arguments, and output_path arguments (None: not passed).
InputPaths == {P_a_mp4, P_a_gif, P_a_palette_png, P_dv_a}
OutputArgs == {None, P_a_gif, P_a_png, P_a_palette_png}

Ops == {"convert_mp4_to_gif", "convert_video"}

\* mp42gif.py lines 44-45 and mp4.py lines 23-25: the resolved output path.
resolved_output(which, input, out) ==
    IF out # None THEN out
    ELSE IF which = "convert_mp4_to_gif" THEN gif_default_output(input)
    ELSE video_default_output(input)

\* Every path a call of the model can name.
Universe ==
    LET outs == {resolved_output(w, i, o) : w \in Ops, i \in InputPaths, o \in OutputArgs}
    IN  InputPaths \cup outs \cup {palette_path_of(x) : x \in outs}

\* The byte strings an engine run may leave on its diagnostic stream:
\* "A" (65), and the two bytes of U+00E9 (195 169), each alone ill-formed.
StderrBytes == {65, 195, 169}
StderrSamples == UNION {[1..n -> StderrBytes] : n \in 0..MaxStderrLen}

(***************************************************************************)
(* The file system                                                         *)
(***************************************************************************)
Absent == [kind |-> "absent", data |-> "none", by |-> 0]
Directory == [kind |-> "dir", data |-> "none", by |-> 0]
MediaFile == [kind |-> "file", data |-> "media", by |-> 0]
OtherFile == [kind |-> "file", data |-> "other", by |-> 0]

\* Mutant of path_exists: the existence check answers yes for every path.
path_exists_unchecked(f, x) == TRUE

\* os.path.exists(x)
path_exists(f, x) == f[x].kind # "absent"

\* os.remove(x): the exception it raises, "none" when it removes the file.
os_remove_error(f, und, x) ==
    IF f[x].kind = "absent" THEN "FileNotFoundError"
    ELSE IF f[x].kind = "dir" THEN "IsADirectoryError"
    ELSE IF x \in und THEN "PermissionError"
    ELSE "none"

\* The file system after os.remove(x) succeeded.
fs_remove(f, x) == [f EXCEPT ![x] = Absent]

\* The file system after the engine wrote its output at x.
fs_write(f, x, d, p) == [f EXCEPT ![x] = [kind |-> "file", data |-> d, by |-> p]]

(***************************************************************************)
(* The external engine, as the wrappers see it                             *)
(***************************************************************************)
NoStderr == [captured |-> FALSE, bytes |-> <<>>]

\* What one engine run reading `inputs` and writing `target` (with -y) can
\* come to.  The executable may fail to start; a run that starts exits zero
\* only when it could read every input and write the target, and it refuses
\* to write over one of its own inputs.  A failing run may or may not have
\* written the target already.  With capture the diagnostic bytes reach the
\* caller, without it they go to the terminal and the caller holds None.
EngineResults(f, inputs, target, capture, samples) ==
    LET canWrite == f[target].kind # "dir" /\ target \notin inputs
        canRead == \A x \in inputs : f[x].kind = "file"
        errs == IF capture
                THEN {[captured |-> TRUE, bytes |-> s] : s \in samples}
                ELSE {NoStderr}
    IN  {[exit |-> "spawn_error", wrote |-> FALSE, stderr |-> NoStderr]}
        \cup {[exit |-> "nonzero", wrote |-> w, stderr |-> e] :
                 w \in (IF canWrite THEN BOOLEAN ELSE {FALSE}), e \in errs}
        \cup (IF canWrite /\ canRead
              THEN {[exit |-> "zero", wrote |-> TRUE,
                     stderr |-> IF capture THEN [captured |-> TRUE, bytes |-> <<>>]
                                ELSE NoStderr]}
              ELSE {})

\* `ffmpeg -version`: starts or not, exits zero or not; touches no file.
ProbeExits == {"zero", "nonzero", "FileNotFoundError", "PermissionError"}

(***************************************************************************)
(* Exceptions                                                              *)
(***************************************************************************)
Exc(t, m, a, e) == [type |-> t, fmt |-> m, arg |-> a, stderr |-> e]
NoExc == Exc("none", "", <<>>, NoStderr)

\* What Popen raises when the executable is not on the search path.
SpawnError == Exc("FileNotFoundError", "[Errno 2] No such file or directory: 'ffmpeg'",
                  <<>>, NoStderr)

\* What os.remove raises.
RemoveError(t, x) == Exc(t, "os.remove: ", x, NoStderr)

\* Mutant of probe_error: both handlers raise the same message.
probe_error_one_message(exit) ==
    IF exit \in {"nonzero", "FileNotFoundError"}
    THEN Exc("RuntimeError", "FFmpeg is not installed. Please install FFmpeg first.",
             <<>>, NoStderr)
    ELSE Exc(exit, "[Errno 13] Permission denied: 'ffmpeg'", <<>>, NoStderr)

\* mp42gif.py lines 38-41: the error the probe's handlers raise.
probe_error(exit) ==
    IF exit = "nonzero"
    THEN Exc("RuntimeError", "FFmpeg is not installed. Please install FFmpeg first.",
             <<>>, NoStderr)
    ELSE IF exit = "FileNotFoundError"
    THEN Exc("RuntimeError",
             "FFmpeg is not installed or not in PATH. Please install FFmpeg first.",
             <<>>, NoStderr)
    ELSE Exc(exit, "[Errno 13] Permission denied: 'ffmpeg'", <<>>, NoStderr)

\* mp42gif.py line 91: e.stderr.decode() inside the f-string, then RuntimeError.
conversion_failed(e) ==
    LET d == utf8_decode(e.stderr.bytes)
    IN  IF d.ok THEN Exc("RuntimeError", "FFmpeg conversion failed: ", d.text, NoStderr)
        ELSE Exc("UnicodeDecodeError", "'utf-8' codec can't decode", <<>>, NoStderr)

(***************************************************************************)
(* State                                                                   *)
(***************************************************************************)
VARIABLES
    procs,         \* the calls in progress (one, or two concurrent ones)
    op,            \* op[p]: the function called
    input_path,    \* input_path[p]: the argument
    output_arg,    \* output_arg[p]: the output_path argument, None if not passed
    output_path,   \* output_path[p]: the local after its default was resolved
    palette_path,  \* palette_path[p]: the local of mp42gif.py line 52
    pc,            \* pc[p]: where the call stands
    exc,           \* exc[p]: the exception a handler has caught
    outcome,       \* outcome[p]: how the call ended
    calls,         \* calls[p]: the engine invocations made, in order
    effects,       \* every change a call made to the file system
    log,           \* log[p]: what the call printed
    fs,            \* the file system
    undeletable,   \* paths whose removal the system refuses
    diag,          \* the diagnostic byte strings the engine can write
    fs0            \* the file system as it was when the calls were made

vars == <<procs, op, input_path, output_arg, output_path, palette_path, pc, exc,
          outcome, calls, effects, log, fs, undeletable, diag, fs0>>

Running == [kind |-> "running", exc |-> NoExc, value |-> None]
Returned(v) == [kind |-> "returned", exc |-> NoExc, value |-> v]
Raised(e) == [kind |-> "raised", exc |-> e, value |-> None]

Call(c, x) == [cmd |-> c, exit |-> x]
Effect(p, o, x) == [by |-> p, op |-> o, path |-> x, victim |-> fs[x].by]

\* The palette path of call p, from its arguments (mp42gif.py lines 44-52).
palette_of(i, o) == palette_path_of(resolved_output("convert_mp4_to_gif", i, o))

\* The state in which the calls of `ps` start: arguments chosen, nothing run.
\* The input may be missing; the palette path may be free, hold an older
\* file or be a directory, and may be undeletable.
Start(ps, whichs, ins, outs, inks, palks, und, samples) ==
    /\ procs = ps
    /\ op \in [ps -> whichs]
    /\ input_path \in [ps -> ins]
    /\ output_arg \in [ps -> outs]
    /\ diag = samples
    /\ output_path = [p \in ps |-> None]
    /\ palette_path = [p \in ps |-> None]
    /\ pc = [p \in ps |-> "start"]
    /\ exc = [p \in ps |-> NoExc]
    /\ outcome = [p \in ps |-> Running]
    /\ calls = [p \in ps |-> <<>>]
    /\ effects = {}
    /\ log = [p \in ps |-> <<>>]
    /\ \E ink \in [ps -> inks], palk \in [ps -> palks] :
          fs = [x \in Universe |->
                  IF \E p \in ps : x = input_path[p]
                  THEN ink[CHOOSE p \in ps : x = input_path[p]]
                  ELSE IF \E p \in ps : x = palette_of(input_path[p], output_arg[p])
                  THEN palk[CHOOSE p \in ps : x = palette_of(input_path[p], output_arg[p])]
                  ELSE Absent]
    /\ fs0 = fs
    /\ undeletable \in {{}} \cup (IF und THEN {{palette_of(input_path[p], output_arg[p])} : p \in ps}
                                  ELSE {})

Init ==
    Start({1}, Ops, InputPaths, OutputArgs, {Absent, MediaFile},
          {Absent, OtherFile, Directory}, TRUE, StderrSamples)

Finish(p, o) ==
    /\ pc' = [pc EXCEPT ![p] = "done"]
    /\ outcome' = [outcome EXCEPT ![p] = o]

(***************************************************************************)
(* convert_mp4_to_gif                                                      *)
(***************************************************************************)
\* Mutant of after_palette_stage: a failed palette stage is run again.
after_palette_stage_retry(exit) ==
    IF exit = "zero" THEN "gif_stage"
    ELSE IF exit = "nonzero" THEN "palette_stage"
    ELSE "done"

\* mp42gif.py line 80, check=True: where the palette stage's exit leads.
after_palette_stage(exit) ==
    IF exit = "zero" THEN "gif_stage"
    ELSE IF exit = "nonzero" THEN "handler"
    ELSE "done"

\* Mutant of after_gif_stage: the exit status is not checked (check=True left out).
after_gif_stage_unchecked(exit) ==
    IF exit \in {"zero", "nonzero"} THEN "remove" ELSE "done"

\* mp42gif.py line 81, check=True: where the GIF stage's exit leads.
after_gif_stage(exit) ==
    IF exit = "zero" THEN "remove"
    ELSE IF exit = "nonzero" THEN "handler"
    ELSE "done"

\* mp42gif.py lines 32-33: the input must exist.
G_CheckInput(p) ==
    /\ op[p] = "convert_mp4_to_gif" /\ pc[p] = "start"
    /\ IF path_exists(fs, input_path[p])
       THEN /\ pc' = [pc EXCEPT ![p] = "probe"]
            /\ UNCHANGED outcome
       ELSE Finish(p, Raised(Exc("FileNotFoundError", "Input file not found: ",
                                 input_path[p], NoStderr)))
    /\ UNCHANGED <<procs, op, input_path, output_arg, output_path, palette_path, exc,
                   calls, effects, log, fs, undeletable, diag, fs0>>

\* mp42gif.py lines 36-52: the version probe, then the output and palette paths.
G_Probe(p) ==
    /\ op[p] = "convert_mp4_to_gif" /\ pc[p] = "probe"
    /\ \E x \in ProbeExits :
         /\ calls' = [calls EXCEPT ![p] = Append(@, Call("probe", x))]
         /\ IF x = "zero"
            THEN /\ output_path' = [output_path EXCEPT ![p] =
                        resolved_output(op[p], input_path[p], output_arg[p])]
                 /\ palette_path' = [palette_path EXCEPT ![p] =
                        palette_path_of(output_path'[p])]
                 /\ pc' = [pc EXCEPT ![p] = "palette_stage"]
                 /\ UNCHANGED outcome
            ELSE /\ Finish(p, Raised(probe_error(x)))
                 /\ UNCHANGED <<output_path, palette_path>>
    /\ UNCHANGED <<procs, op, input_path, output_arg, exc, effects, log, fs, undeletable, diag, fs0>>

\* Mutant of palette_cmd: the palette is written beside the input, not at
\* the path derived from the output path.
palette_cmd_beside_input(input, palette) ==
    [name |-> "palette", inputs |-> {input}, target |-> splitext(input)[1] \o PaletteSuffix]

\* mp42gif.py lines 55-63: what palette_cmd reads (-i) and writes (-y).
palette_cmd(input, palette) == [name |-> "palette", inputs |-> {input}, target |-> palette]

\* mp42gif.py lines 66-76: what gif_cmd reads (-i, -i) and writes (-y).
gif_cmd(input, palette, output) ==
    [name |-> "gif", inputs |-> {input, palette}, target |-> output]

\* One stage: subprocess.run(cmd, check=True, capture_output=True); next[x]
\* is where exit x leads.
G_Stage(p, at, cmd, next) ==
    /\ op[p] = "convert_mp4_to_gif" /\ pc[p] = at
    /\ \E r \in EngineResults(fs, cmd.inputs, cmd.target, TRUE, diag) :
         /\ calls' = [calls EXCEPT ![p] = Append(@, Call(cmd.name, r.exit))]
         /\ IF r.wrote
            THEN /\ fs' = fs_write(fs, cmd.target,
                                   IF r.exit = "zero" THEN cmd.name ELSE "partial", p)
                 /\ effects' = effects \cup {Effect(p, "write", cmd.target)}
            ELSE UNCHANGED <<fs, effects>>
         /\ pc' = [pc EXCEPT ![p] = next[r.exit]]
         /\ IF next[r.exit] = "done"
            THEN /\ outcome' = [outcome EXCEPT ![p] = Raised(SpawnError)]
                 /\ UNCHANGED exc
            ELSE IF next[r.exit] = "handler"
            THEN /\ exc' = [exc EXCEPT ![p] = Exc("CalledProcessError", "", <<>>, r.stderr)]
                 /\ UNCHANGED outcome
            ELSE UNCHANGED <<exc, outcome>>
    /\ UNCHANGED <<procs, op, input_path, output_arg, output_path, palette_path, log,
                   undeletable, diag, fs0>>

\* mp42gif.py lines 55-63 and 80: the palette generation stage.
G_PaletteStage(p) ==
    G_Stage(p, "palette_stage", palette_cmd(input_path[p], palette_path[p]),
            [x \in {"zero", "nonzero", "spawn_error"} |-> after_palette_stage(x)])

\* mp42gif.py lines 66-76 and 81: the palette application stage.
G_GifStage(p) ==
    G_Stage(p, "gif_stage", gif_cmd(input_path[p], palette_path[p], output_path[p]),
            [x \in {"zero", "nonzero", "spawn_error"} |-> after_gif_stage(x)])

\* mp42gif.py lines 84-86: remove the palette, return the output path.
G_RemoveAndReturn(p) ==
    /\ op[p] = "convert_mp4_to_gif" /\ pc[p] = "remove"
    /\ LET err == os_remove_error(fs, undeletable, palette_path[p])
       IN  IF err = "none"
           THEN /\ fs' = fs_remove(fs, palette_path[p])
                /\ effects' = effects \cup {Effect(p, "remove", palette_path[p])}
                /\ Finish(p, Returned(output_path[p]))
           ELSE /\ Finish(p, Raised(RemoveError(err, palette_path[p])))
                /\ UNCHANGED <<fs, effects>>
    /\ UNCHANGED <<procs, op, input_path, output_arg, output_path, palette_path, exc,
                   calls, log, undeletable, diag, fs0>>

\* mp42gif.py lines 88-89: the handler of CalledProcessError looks for the palette.
G_HandlerExists(p) ==
    /\ op[p] = "convert_mp4_to_gif" /\ pc[p] = "handler"
    /\ pc' = [pc EXCEPT ![p] = IF path_exists(fs, palette_path[p])
                               THEN "handler_remove" ELSE "handler_raise"]
    /\ UNCHANGED <<procs, op, input_path, output_arg, output_path, palette_path, exc,
                   outcome, calls, effects, log, fs, undeletable, diag, fs0>>

\* mp42gif.py line 90: the handler removes the palette.
G_HandlerRemove(p) ==
    /\ op[p] = "convert_mp4_to_gif" /\ pc[p] = "handler_remove"
    /\ LET err == os_remove_error(fs, undeletable, palette_path[p])
       IN  IF err = "none"
           THEN /\ fs' = fs_remove(fs, palette_path[p])
                /\ effects' = effects \cup {Effect(p, "remove", palette_path[p])}
                /\ pc' = [pc EXCEPT ![p] = "handler_raise"]
                /\ UNCHANGED outcome
           ELSE /\ Finish(p, Raised(RemoveError(err, palette_path[p])))
                /\ UNCHANGED <<fs, effects>>
    /\ UNCHANGED <<procs, op, input_path, output_arg, output_path, palette_path, exc,
                   calls, log, undeletable, diag, fs0>>

\* mp42gif.py line 91: the handler raises RuntimeError with the decoded stderr.
G_HandlerRaise(p) ==
    /\ op[p] = "convert_mp4_to_gif" /\ pc[p] = "handler_raise"
    /\ Finish(p, Raised(conversion_failed(exc[p])))
    /\ UNCHANGED <<procs, op, input_path, output_arg, output_path, palette_path, exc,
                   calls, effects, log, fs, undeletable, diag, fs0>>

(***************************************************************************)
(* convert_video                                                           *)
(***************************************************************************)
\* A printed line: its fixed text m (mp4.py prints Chinese messages, given
\* here in English), the exception e or the text t formatted into it.
LogEntry(m, e, t) == [fmt |-> m, exc |-> e, text |-> t]

\* ffmpeg.run(stream, overwrite_output=True) at mp4.py line 42 passes no
\* capture_stderr: the engine's diagnostic stream is not piped.
run_captures_stderr == FALSE

\* mp4.py line 48: e.stderr.decode() inside the f-string of the ffmpeg.Error
\* handler.  [raised, text]: the exception the evaluation raises (NoExc when
\* it does not) and the decoded text.
ffmpeg_error_text(e) ==
    IF ~e.stderr.captured
    THEN [raised |-> Exc("AttributeError", "'NoneType' object has no attribute 'decode'",
                         <<>>, NoStderr),
          text |-> <<>>]
    ELSE LET d == utf8_decode(e.stderr.bytes)
         IN  IF d.ok THEN [raised |-> NoExc, text |-> d.text]
             ELSE [raised |-> Exc("UnicodeDecodeError", "'utf-8' codec can't decode",
                                  <<>>, NoStderr),
                   text |-> <<>>]

\* mp4.py lines 19-25: the input must exist; then the default output path.
V_CheckInput(p) ==
    /\ op[p] = "convert_video" /\ pc[p] = "start"
    /\ IF path_exists(fs, input_path[p])
       THEN /\ output_path' = [output_path EXCEPT ![p] =
                   resolved_output(op[p], input_path[p], output_arg[p])]
            /\ pc' = [pc EXCEPT ![p] = "v_run"]
            /\ UNCHANGED exc
       ELSE /\ exc' = [exc EXCEPT ![p] = Exc("FileNotFoundError", "input file not found: ",
                                             input_path[p], NoStderr)]
            /\ pc' = [pc EXCEPT ![p] = "v_except_exception"]
            /\ UNCHANGED output_path
    /\ UNCHANGED <<procs, op, input_path, output_arg, palette_path, outcome, calls,
                   effects, log, fs, undeletable, diag, fs0>>

\* mp4.py lines 28-45: the one engine run, then the success message and return.
V_Run(p) ==
    /\ op[p] = "convert_video" /\ pc[p] = "v_run"
    /\ \E r \in EngineResults(fs, {input_path[p]}, output_path[p], run_captures_stderr, diag) :
         /\ calls' = [calls EXCEPT ![p] = Append(@, Call("ffmpeg", r.exit))]
         /\ IF r.wrote
            THEN /\ fs' = fs_write(fs, output_path[p],
                                   IF r.exit = "zero" THEN "video" ELSE "partial", p)
                 /\ effects' = effects \cup {Effect(p, "write", output_path[p])}
            ELSE UNCHANGED <<fs, effects>>
         /\ IF r.exit = "zero"
            THEN /\ log' = [log EXCEPT ![p] = Append(@, LogEntry("done, output file: ", NoExc,
                                                                 output_path[p]))]
                 /\ Finish(p, Returned(output_path[p]))
                 /\ UNCHANGED exc
            ELSE /\ exc' = [exc EXCEPT ![p] =
                        IF r.exit = "spawn_error" THEN SpawnError
                        ELSE Exc("ffmpeg.Error", "ffmpeg error (see stderr output for detail)",
                                 <<>>, r.stderr)]
                 /\ pc' = [pc EXCEPT ![p] = IF r.exit = "spawn_error"
                                            THEN "v_except_exception"
                                            ELSE "v_except_ffmpeg"]
                 /\ UNCHANGED <<log, outcome>>
    /\ UNCHANGED <<procs, op, input_path, output_arg, output_path, palette_path,
                   undeletable, diag, fs0>>

\* mp4.py lines 47-49: except ffmpeg.Error: print the decoded stderr, re-raise.
V_ExceptFfmpeg(p) ==
    /\ op[p] = "convert_video" /\ pc[p] = "v_except_ffmpeg"
    /\ LET t == ffmpeg_error_text(exc[p])
       IN  IF t.raised = NoExc
           THEN /\ log' = [log EXCEPT ![p] = Append(@, LogEntry("FFmpeg error: ", NoExc, t.text))]
                /\ Finish(p, Raised(exc[p]))
           ELSE /\ Finish(p, Raised(t.raised))
                /\ UNCHANGED log
    /\ UNCHANGED <<procs, op, input_path, output_arg, output_path, palette_path, exc,
                   calls, effects, fs, undeletable, diag, fs0>>

\* mp4.py lines 50-52: except Exception: print str(e), re-raise.
V_ExceptException(p) ==
    /\ op[p] = "convert_video" /\ pc[p] = "v_except_exception"
    /\ log' = [log EXCEPT ![p] = Append(@, LogEntry("error: ", exc[p], <<>>))]
    /\ Finish(p, Raised(exc[p]))
    /\ UNCHANGED <<procs, op, input_path, output_arg, output_path, palette_path, exc,
                   calls, effects, fs, undeletable, diag, fs0>>

(***************************************************************************)
(* Specifications                                                          *)
(***************************************************************************)
\* One call of either function, alone on the file system.
Next ==
    \/ \E p \in procs : G_CheckInput(p)
    \/ \E p \in procs : G_Probe(p)
    \/ \E p \in procs : G_PaletteStage(p)
    \/ \E p \in procs : G_GifStage(p)
    \/ \E p \in procs : G_RemoveAndReturn(p)
    \/ \E p \in procs : G_HandlerExists(p)
    \/ \E p \in procs : G_HandlerRemove(p)
    \/ \E p \in procs : G_HandlerRaise(p)
    \/ \E p \in procs : V_CheckInput(p)
    \/ \E p \in procs : V_Run(p)
    \/ \E p \in procs : V_ExceptFfmpeg(p)
    \/ \E p \in procs : V_ExceptException(p)

Spec == Init /\ [][Next]_vars

\* Two concurrent calls of convert_mp4_to_gif on one file system.
\* Both inputs exist, the engine writes one diagnostic text.
InitConc ==
    Start({1, 2}, {"convert_mp4_to_gif"}, {P_a_mp4, P_dv_a}, OutputArgs, {MediaFile},
          {Absent, OtherFile}, FALSE, {<<65>>})

NextConc ==
    \/ \E p \in procs : G_CheckInput(p)
    \/ \E p \in procs : G_Probe(p)
    \/ \E p \in procs : G_PaletteStage(p)
    \/ \E p \in procs : G_GifStage(p)
    \/ \E p \in procs : G_RemoveAndReturn(p)
    \/ \E p \in procs : G_HandlerExists(p)
    \/ \E p \in procs : G_HandlerRemove(p)
    \/ \E p \in procs : G_HandlerRaise(p)

SpecConc == InitConc /\ [][NextConc]_vars

(***************************************************************************)
(* Properties                                                              *)
(***************************************************************************)
IsGif(p) == op[p] = "convert_mp4_to_gif"
IsVideo(p) == op[p] = "convert_video"
Done(p) == pc[p] = "done"
EffectsOf(p) == {e \in effects : e.by = p}
Cmds(p) == [i \in DOMAIN calls[p] |-> calls[p][i].cmd]
Count(p, c) == Cardinality({i \in DOMAIN calls[p] : calls[p][i].cmd = c})
Invoked(p, c) == \E i \in DOMAIN calls[p] : calls[p][i].cmd = c
Exited(p, c, x) == \E i \in DOMAIN calls[p] : calls[p][i] = Call(c, x)
MissingAtCall(p) == fs0[input_path[p]].kind = "absent"
IsPrefix(a, b) == Len(a) <= Len(b) /\ a = SubSeq(b, 1, Len(a))

\* C1: a call of convert_video or convert_mp4_to_gif whose input path did not
\* exist when the call was made invokes the engine not once (no probe, no
\* stage, no run), writes and removes no file, and can only end by raising
\* FileNotFoundError.
C1_MissingInputRaisesBeforeAnyInvocation ==
    \A p \in procs :
        MissingAtCall(p) =>
            /\ calls[p] = <<>>
            /\ EffectsOf(p) = {}
            /\ fs = fs0
            /\ pc[p] \in {"start", "v_except_exception", "done"}
            /\ Done(p) => /\ outcome[p].kind = "raised"
                          /\ outcome[p].exc.type = "FileNotFoundError"
                          /\ outcome[p].exc.arg = input_path[p]

\* C1 witness: a convert_mp4_to_gif call on a missing input has ended.
C1_Witness ==
    \E p \in procs : IsGif(p) /\ MissingAtCall(p) /\ Done(p)

\* C2: whenever convert_mp4_to_gif has returned its output path, no file is
\* at the palette path (the output path without extension + "_palette.png"),
\* and the calls made were the probe, the palette stage and the GIF stage,
\* each exited with status zero.
C2_ReturnImpliesPaletteGone ==
    \A p \in procs :
        (IsGif(p) /\ outcome[p].kind = "returned") =>
            /\ outcome[p].value = output_path[p]
            /\ palette_path[p] = splitext(output_path[p])[1] \o PaletteSuffix
            /\ fs[palette_path[p]].kind = "absent"
            /\ calls[p] = <<Call("probe", "zero"), Call("palette", "zero"), Call("gif", "zero")>>

\* C2 witness: a call returned although a file was at the palette path before.
C2_Witness ==
    \E p \in procs :
        /\ IsGif(p) /\ outcome[p].kind = "returned"
        /\ fs0[palette_path[p]].kind = "file"

\* C6: in convert_mp4_to_gif with an existing input the first invocation is
\* the version probe; when the probe exits non-zero or the executable is not
\* found the call ends with RuntimeError, with a different message for each
\* cause, no stage is invoked and no file is written or removed; and a
\* missing input is reported as such without the probe being run.
C6_ProbeGuardsTheStages ==
    \A p \in procs :
        IsGif(p) =>
            /\ calls[p] # <<>> => (calls[p][1].cmd = "probe" /\ ~MissingAtCall(p))
            /\ (calls[p] # <<>> /\ calls[p][1].exit \in {"nonzero", "FileNotFoundError"}) =>
                  /\ Done(p)
                  /\ Len(calls[p]) = 1
                  /\ EffectsOf(p) = {}
                  /\ fs = fs0
                  /\ outcome[p].kind = "raised"
                  /\ outcome[p].exc.type = "RuntimeError"
                  /\ outcome[p].exc.fmt #
                        probe_error(CHOOSE x \in {"nonzero", "FileNotFoundError"} :
                                        x # calls[p][1].exit).fmt
            /\ (MissingAtCall(p) /\ Done(p)) => outcome[p].exc.type = "FileNotFoundError"

\* C6 witness: a call ended because the engine executable was not found.
C6_Witness ==
    \E p \in procs :
        IsGif(p) /\ Done(p) /\ calls[p] = <<Call("probe", "FileNotFoundError")>>

\* C7: in convert_mp4_to_gif the invocations are made in the order probe,
\* palette stage, GIF stage, each at most once; the GIF stage is invoked only
\* after the palette stage has exited; once the preconditions have passed the
\* call cannot end without exactly one palette stage invocation; and a normal
\* return implies exactly one invocation of each stage.
C7_StagesInOrderOnce ==
    \A p \in procs :
        IsGif(p) =>
            /\ IsPrefix(Cmds(p), <<"probe", "palette", "gif">>)
            /\ Invoked(p, "gif") =>
                  \E i \in DOMAIN calls[p] :
                      /\ calls[p][i].cmd = "palette"
                      /\ calls[p][i].exit \in {"zero", "nonzero"}
                      /\ calls[p][i + 1].cmd = "gif"
            /\ (Done(p) /\ Exited(p, "probe", "zero")) => Count(p, "palette") = 1
            /\ outcome[p].kind = "returned" =>
                  Count(p, "palette") = 1 /\ Count(p, "gif") = 1

\* C7 witness: a call ended after both stages ran and the GIF stage failed.
C7_Witness ==
    \E p \in procs :
        /\ IsGif(p) /\ Done(p)
        /\ Cmds(p) = <<"probe", "palette", "gif">>
        /\ calls[p][3].exit = "nonzero"

\* The diagnostic bytes the failed stage of call p wrote.
StageFailed(p) == exc[p].type = "CalledProcessError"
StageStderr(p) == exc[p].stderr.bytes

\* The engine-failure error of mp42gif.py line 91 carrying the bytes b.
IsEngineFailure(o, b) ==
    /\ o.kind = "raised"
    /\ o.exc.type = "RuntimeError"
    /\ o.exc.fmt = "FFmpeg conversion failed: "
    /\ utf8_encode(o.exc.arg) = b

\* C3: when a stage of convert_mp4_to_gif exited non-zero, the call ends with
\* RuntimeError whose message carries that stage's diagnostic output, and no
\* file is at the palette path then.
C3_StageFailureRaisesWithDiagnostics ==
    \A p \in procs :
        (IsGif(p) /\ Done(p) /\ StageFailed(p)) =>
            /\ IsEngineFailure(outcome[p], StageStderr(p))
            /\ fs[palette_path[p]].kind = "absent"

\* C4: when convert_mp4_to_gif has ended after the palette stage was invoked,
\* the palette file this call wrote is not on disk, however the call ended.
C4_PaletteNeverLeftBehind ==
    \A p \in procs :
        (IsGif(p) /\ Done(p) /\ Invoked(p, "palette")) =>
            ~(fs[palette_path[p]].kind = "file" /\ fs[palette_path[p]].by = p)

\* C5: when the engine run of convert_video fails, the call logs the engine's
\* diagnostic text and raises that same ffmpeg.Error; any other exception is
\* logged and raised again unchanged; a failed call returns no output path.
C5_EngineErrorLoggedAndReraised ==
    \A p \in procs :
        (IsVideo(p) /\ Done(p)) =>
            /\ Exited(p, "ffmpeg", "nonzero") =>
                  /\ outcome[p].kind = "raised"
                  /\ outcome[p].exc.type = "ffmpeg.Error"
                  /\ \E i \in DOMAIN log[p] : log[p][i].fmt = "FFmpeg error: "
            /\ (exc[p].type \notin {"none", "ffmpeg.Error"}) =>
                  /\ outcome[p] = Raised(exc[p])
                  /\ \E i \in DOMAIN log[p] : log[p][i] = LogEntry("error: ", exc[p], <<>>)
            /\ outcome[p].kind = "returned" => \A i \in DOMAIN calls[p] : calls[p][i].exit = "zero"

\* C8: when a stage of convert_mp4_to_gif exited non-zero (with diagnostic
\* output that decodes), the error the caller gets is the engine-failure
\* RuntimeError carrying that output, also when removing the palette failed.
C8_CleanupFailureDoesNotMask ==
    \A p \in procs :
        (IsGif(p) /\ Done(p) /\ StageFailed(p) /\ utf8_decode(StageStderr(p)).ok) =>
            IsEngineFailure(outcome[p], StageStderr(p))

\* C9: convert_mp4_to_gif never writes or removes the file at its input path:
\* an input that existed when the call was made is there unchanged.
C9_InputIsReadOnly ==
    \A p \in procs :
        IsGif(p) =>
            /\ \A e \in EffectsOf(p) : e.path # input_path[p]
            /\ fs0[input_path[p]].kind = "file" => fs[input_path[p]] = fs0[input_path[p]]

\* The output and palette paths call p works on, from its arguments.
OutputOf(p) == resolved_output(op[p], input_path[p], output_arg[p])
PaletteOf(p) == palette_path_of(OutputOf(p))

\* Call p wrote or removed the file at x.
Touched(p, x) == \E e \in EffectsOf(p) : e.path = x

\* C10 (as claimed): two concurrent calls whose palette paths differ never
\* write or remove the file at each other's palette path.
C10_DistinctPalettesNeverInterfere ==
    \A p \in procs : \A q \in procs \ {p} :
        PaletteOf(p) # PaletteOf(q) => ~Touched(p, PaletteOf(q))

\* C10 (amended): two concurrent calls whose palette paths differ, and whose
\* output paths are not each other's palette path, never write or remove the
\* file at each other's palette path.
C10_DisjointPathsNeverInterfere ==
    \A p \in procs : \A q \in procs \ {p} :
        (PaletteOf(p) # PaletteOf(q) /\ OutputOf(p) # PaletteOf(q)) =>
            ~Touched(p, PaletteOf(q))

\* C10 witness: two concurrent calls share a palette path; one removed the
\* palette the other had written, and the other, both of whose stages exited
\* zero, then failed to remove it: its os.remove raised FileNotFoundError.
C10_Witness ==
    \E p \in procs : \E q \in procs \ {p} :
        /\ PaletteOf(p) = PaletteOf(q)
        /\ \E e \in EffectsOf(p) :
              e.op = "remove" /\ e.path = PaletteOf(q) /\ e.victim = q
        /\ Exited(q, "palette", "zero") /\ Exited(q, "gif", "zero")
        /\ outcome[q] = Raised(RemoveError("FileNotFoundError", palette_path[q]))

====
